---- MODULE Spec2Model ----
(***************************************************************************)
(* hipercam/scripts/shiftadd.py: shift-and-add stacking of CCD frames.     *)
(*                                                                         *)
(* One run of shiftadd() from the CleanUp block on: the offset estimator   *)
(* loop, the drift normalisation, the template/WCS step, the per-CCD       *)
(* resample loop, the combination, the crop back into windows and the      *)
(* write, with every way of leaving the block going through                *)
(* CleanUp.__exit__.                                                       *)
(*                                                                         *)
(* Numbers.  An offset is a float64 of the code, kept as the integer       *)
(* a * Fine + b: a counts units of 1/Coarse of an unbinned pixel (Coarse   *)
(* is a multiple of every possible frame count, so every mean of measured  *)
(* offsets is a whole number of them) and b, far smaller than Fine, is the *)
(* rounding error of the float64 in units of 1/(Coarse * 2^FineBits) of a  *)
(* pixel.  The order and the sign of the floats are those of the integers. *)
(* Pixel values are naturals, NaN is the value NaN.  A combined pixel is   *)
(* the exact fraction [num, den], with                                     *)
(* den = 0 for NaN.  Frame numbers nf are 0-based as in the code; TLA+     *)
(* sequences are 1-based, so list[nf] of the code is list[nf + 1] here.    *)
(***************************************************************************)
EXTENDS Integers, Sequences, FiniteSets, TLC

\* Largest number of files in the file list.
MaxFrames == 3

\* ------------------------------------------------------------------------
\* Arithmetic helpers
\* ------------------------------------------------------------------------

Abs(x) == IF x < 0 THEN -x ELSE x

Max2(a, b) == IF a > b THEN a ELSE b

Min2(a, b) == IF a < b THEN a ELSE b

RECURSIVE GCD(_, _)
GCD(a, b) == IF b = 0 THEN a ELSE GCD(b, a % b)

RECURSIVE LCMUpTo(_)
LCMUpTo(n) == IF n <= 1 THEN 1 ELSE (LCMUpTo(n - 1) * n) \div GCD(LCMUpTo(n - 1), n)

\* Measured offsets are whole numbers of 1/Coarse pixel.
Coarse == 2 * LCMUpTo(MaxFrames)

\* One unit of 1/Coarse pixel in offset units; rounding errors stay far
\* below it.
Fine == 65536

\* One pixel in offset units.
OffScale == Coarse * Fine

\* One measured half pixel in offset units.
HalfPix == LCMUpTo(MaxFrames) * Fine

\* ------------------------------------------------------------------------
\* float64 arithmetic on offsets
\* ------------------------------------------------------------------------

RECURSIVE OddPart(_)
OddPart(n) == IF n % 2 = 0 THEN OddPart(n \div 2) ELSE n

RECURSIVE TwoExp(_)
TwoExp(n) == IF n % 2 = 0 THEN 1 + TwoExp(n \div 2) ELSE 0

RECURSIVE Pow2(_)
Pow2(n) == IF n = 0 THEN 1 ELSE 2 * Pow2(n - 1)

\* 2^n mod m.
RECURSIVE Pow2Mod(_, _)
Pow2Mod(n, m) == IF n = 0 THEN 1 % m ELSE (2 * Pow2Mod(n - 1, m)) % m

\* The error part b of an offset counts units of 2^-FineBits of 1/Coarse
\* pixel, chosen so that the spacing of the float64 with binary exponent e
\* is OddPart(Coarse) * 2^(e + 8) of them.
FineBits == 60 - TwoExp(Coarse)

\* The parts a and b of an offset.
Exact(c) == (c + Fine \div 2) \div Fine

Dev(c) == c - Exact(c) * Fine

\* The binary exponent of the positive number a / Coarse + b * tiny, a
\* number below 2048 pixels.
Expo(a, b) ==
    CHOOSE e \in -8..10 :
        /\ IF e >= 0
           THEN IF b < 0 THEN Pow2(e) * Coarse < a ELSE Pow2(e) * Coarse <= a
           ELSE IF b < 0 THEN Coarse < a * Pow2(-e) ELSE Coarse <= a * Pow2(-e)
        /\ \/ e = 10
           \/ IF e + 1 >= 0
              THEN IF b < 0 THEN ~(Pow2(e + 1) * Coarse < a) ELSE ~(Pow2(e + 1) * Coarse <= a)
              ELSE IF b < 0 THEN ~(Coarse < a * Pow2(-(e + 1)))
                   ELSE ~(Coarse <= a * Pow2(-(e + 1)))

\* The distance of the positive number (a, b) above the float64 below it,
\* whose spacing is OddPart(Coarse) * 2^k.
Above(a, b, k) ==
    (Pow2(k) * (((a % OddPart(Coarse)) * Pow2Mod(FineBits - k, OddPart(Coarse)))
                    % OddPart(Coarse)) + b) % (OddPart(Coarse) * Pow2(k))

\* Round to nearest, ties to even: the error part of the float64 nearest
\* to the positive number (a, b).
RoundDev(a, b) ==
    LET k == Expo(a, b) + 8
        U == OddPart(Coarse) * Pow2(k)
        r == Above(a, b, k)
    IN IF 2 * r < U THEN b - r
       ELSE IF 2 * r > U THEN b - r + U
       ELSE IF ((b - r) \div Pow2(k)) % 2 = 0 THEN b - r
       ELSE b - r + U

\* The float64 nearest to the real number a / Coarse + b * tiny; a whole
\* number of 1/2^TwoExp(Coarse) pixel is a float64 itself.
Fl(a, b) ==
    IF a = 0 THEN b
    ELSE IF b = 0 /\ a % OddPart(Coarse) = 0 THEN a * Fine
    ELSE IF a > 0 THEN a * Fine + RoundDev(a, b)
    ELSE -((-a) * Fine + RoundDev(-a, -b))

\* x - y, x + y of two float64.
FlSub(x, y) == Fl(Exact(x) - Exact(y), Dev(x) - Dev(y))

FlAdd(x, y) == Fl(Exact(x) + Exact(y), Dev(x) + Dev(y))

\* x / n of a float64 that is a whole number of n / Coarse pixel.
FlDiv(x, n) == Fl((x \div Fine) \div n, 0)

\* x / bin of a float64 for a binning factor that is a power of two: the
\* division is exact.
FlQuot(x, bin) == x \div bin

\* ------------------------------------------------------------------------
\* The frames: CCDs, windows, data
\* ------------------------------------------------------------------------

\* CCD names in the order "for cnam in output_mccd" visits them.
CNAMS == <<"1", "2">>

CnamSet == {CNAMS[i] : i \in 1..Len(CNAMS)}

\* Window layout of the template frame (the first file).  llx, lly are
\* 1-based unbinned coordinates, nx, ny are binned sizes.
Layout ==
    [c \in CnamSet |->
        IF c = "1"
        THEN [nxtot |-> 5, nytot |-> 3, xbin |-> 1, ybin |-> 1,
              wins |-> << [wnam |-> "E1", llx |-> 1, lly |-> 1, nx |-> 2, ny |-> 2,
                           xbin |-> 1, ybin |-> 1],
                          [wnam |-> "E2", llx |-> 3, lly |-> 1, nx |-> 2, ny |-> 2,
                           xbin |-> 1, ybin |-> 1] >>]
        ELSE [nxtot |-> 8, nytot |-> 3, xbin |-> 2, ybin |-> 1,
              wins |-> << [wnam |-> "E1", llx |-> 3, lly |-> 1, nx |-> 2, ny |-> 2,
                           xbin |-> 2, ybin |-> 1] >>]]

\* What a frame file can hold: which CCDs have data (ccd.is_data()), what
\* moveApers measures on it (mean shift of the reference apertures in half
\* pixels, mean FWHM) and the level of its pixels.
DataPatterns == {{}, {"1"}, {"2"}, {"1", "2"}}

\* moveApers on a frame: a steady sharp frame, a steady blurred frame, or a
\* sharp frame that moved by (+1.5, -1.0) pixels since the previous one.
Measures ==
    { [d |-> <<0, 0>>, mfwhm |-> 1],
      [d |-> <<0, 0>>, mfwhm |-> 3],
      [d |-> <<3, -2>>, mfwhm |-> 1] }

FThreshVals == {0, 2}

PixLevel(nf) == 10 * (nf + 1)

\* np.nan in a resampled layer.
NaN == -1

\* MJDUTC of frame nf: the frames are in time order.
MJDUTC(nf) == 100 + nf

\* ------------------------------------------------------------------------
\* State
\* ------------------------------------------------------------------------

VARIABLES
    server_or_local,  \* TRUE: frames were grabbed (temporary files)
    nfiles,           \* number of frame files named in the file list
    fthresh,          \* FWHM threshold
    reprmethod,       \* "interp", "adaptive" or "exact"
    method,           \* "m" median, "c" clipped mean
    sigma,            \* clipping threshold
    maxiters,         \* clipping passes
    ref_cnam,         \* the reference CCD
    tmpfiles,         \* frame files of the list that exist on disk
    flist_exists,     \* the list file exists on disk
    outfile,          \* the written output, <<>> while unwritten
    nwrites,          \* how often the output was written
    pc,               \* position in shiftadd()
    exit,             \* "running", or how the block is left
    err,              \* the exception that left the block
    nf,               \* loop index of the frame loops
    frames,           \* the frames read so far: frames[nf + 1].data
    offsets,          \* list of (xoff, yoff)
    fwhm_values,
    mjds,
    xoff,
    yoff,
    orig_wcs,         \* "none", "celestial" or "basic"
    cidx,             \* index into CNAMS of the CCD being stacked
    arrs,             \* the list of full-frame layers of this CCD
    nframes_used,
    header_string,    \* the list of <<cnam, nframes_used>> entries
    stack,            \* the combined full-frame array of this CCD
    output_mccd,      \* window data of the template, replaced by crops
    resampled         \* history: one record per layer appended to arrs

params == <<server_or_local, nfiles, fthresh, reprmethod, method, sigma, maxiters, ref_cnam>>

disk == <<tmpfiles, flist_exists, outfile, nwrites>>

estim == <<frames, offsets, fwhm_values, mjds, xoff, yoff>>

stacking == <<cidx, arrs, nframes_used, header_string, stack, output_mccd, resampled>>

vars == <<params, disk, pc, exit, err, nf, estim, orig_wcs, stacking>>

NoErr == [kind |-> "none", cnam |-> "", wnam |-> "", nf |-> -1]

Error(kind, cnam, wnam, n) == [kind |-> kind, cnam |-> cnam, wnam |-> wnam, nf |-> n]

AllFiles == 0..(nfiles - 1)

\* ------------------------------------------------------------------------
\* CleanUp: the context manager around the whole processing block
\* ------------------------------------------------------------------------

\* Leaving the with block by an exception of class type (or "None"):
\* CleanUp.__exit__ is entered, nothing is removed yet.
Leave(type, how, e) ==
    /\ pc' = "cleanup"
    /\ exit' = how
    /\ err' = e
    /\ UNCHANGED <<tmpfiles, flist_exists>>

\* The first line of the list whose file is still on disk.
NextLine == CHOOSE n \in tmpfiles : \A m \in tmpfiles : n <= m

\* CleanUp.__exit__, one file operation at a time, if self.temp: os.remove
\* of the next line of the list, then os.remove of the list; then the
\* return that ends the block.
CleanUpExit ==
    /\ pc = "cleanup"
    /\ \/ /\ server_or_local
          /\ tmpfiles # {}
          /\ tmpfiles' = tmpfiles \ {NextLine}
          /\ UNCHANGED <<flist_exists, pc>>
       \/ /\ server_or_local
          /\ tmpfiles = {}
          /\ flist_exists
          /\ flist_exists' = FALSE
          /\ UNCHANGED <<tmpfiles, pc>>
       \/ /\ ~server_or_local \/ (tmpfiles = {} /\ ~flist_exists)
          /\ pc' = "done"
          /\ UNCHANGED <<tmpfiles, flist_exists>>
    /\ UNCHANGED <<params, outfile, nwrites, exit, err, nf, estim, orig_wcs, stacking>>

\* ------------------------------------------------------------------------
\* Offset estimator (first pass over the file list)
\* ------------------------------------------------------------------------

\* Mutant of FrameAction: any frame without reference data is fatal.
FrameActionNoAnyTest(data) == IF ref_cnam \notin data THEN "raise" ELSE "fit"

\* What the loop body does with a frame whose CCDs with data are `data`.
FrameAction(data) ==
    IF ref_cnam \notin data
    THEN IF ~(\E cnam \in CnamSet : cnam \in data) THEN "skip" ELSE "raise"
    ELSE "fit"

\* Where the estimator loop goes after frame nf.
AfterEstimate == IF nf + 1 < nfiles THEN "estimate" ELSE "normalise"

Estimate ==
    /\ pc = "estimate"
    /\ nf < nfiles
    /\ \E data \in DataPatterns :
        /\ frames' = Append(frames, [data |-> data])
        /\ CASE FrameAction(data) = "skip" ->
                  /\ pc' = AfterEstimate
                  /\ nf' = nf + 1
                  /\ UNCHANGED <<offsets, fwhm_values, mjds, xoff, yoff, exit, err,
                                 tmpfiles, flist_exists>>
             [] FrameAction(data) = "raise" ->
                  /\ Leave("HipercamError", "error", Error("norefdata", ref_cnam, "", nf))
                  /\ UNCHANGED <<nf, offsets, fwhm_values, mjds, xoff, yoff>>
             [] OTHER ->
                  \E store \in Measures :
                      /\ fwhm_values' = Append(fwhm_values, store.mfwhm)
                      /\ mjds' = Append(mjds, MJDUTC(nf))
                      /\ xoff' = xoff + store.d[1] * HalfPix
                      /\ yoff' = yoff + store.d[2] * HalfPix
                      /\ offsets' = Append(offsets, <<xoff', yoff'>>)
                      /\ pc' = AfterEstimate
                      /\ nf' = nf + 1
                      /\ UNCHANGED <<exit, err, tmpfiles, flist_exists>>
    /\ UNCHANGED <<params, outfile, nwrites, orig_wcs, stacking>>

\* ------------------------------------------------------------------------
\* Drift normalisation
\* ------------------------------------------------------------------------

RECURSIVE ColSum(_, _)
ColSum(offs, k) == IF offs = <<>> THEN 0 ELSE Head(offs)[k] + ColSum(Tail(offs), k)

\* offsets.mean(axis=0): the sum of the measured offsets is exact, the
\* division rounds.
ColMean(offs) == <<FlDiv(ColSum(offs, 1), Len(offs)), FlDiv(ColSum(offs, 2), Len(offs))>>

\* offsets -= v, row by row.
RECURSIVE SubtractRow(_, _)
SubtractRow(offs, v) ==
    IF offs = <<>> THEN <<>>
    ELSE <<<<FlSub(Head(offs)[1], v[1]), FlSub(Head(offs)[2], v[2])>>>>
         \o SubtractRow(Tail(offs), v)

\* offsets -= offsets.mean(axis=0)
Centre(offs) == LET m == ColMean(offs) IN SubtractRow(offs, m)

\* np.sum(np.abs(offsets), axis=1)
RECURSIVE TotalOffsets(_)
TotalOffsets(offs) ==
    IF offs = <<>> THEN <<>>
    ELSE <<FlAdd(Abs(Head(offs)[1]), Abs(Head(offs)[2]))>> \o TotalOffsets(Tail(offs))

\* np.argmin: the first index of the minimum.
ArgMin(t) ==
    CHOOSE i \in 1..Len(t) :
        /\ \A j \in 1..Len(t) : t[i] <= t[j]
        /\ \A j \in 1..(i - 1) : t[j] > t[i]

\* Mutant of Reference: the re-referencing step is left out.
ReferenceSkipped(offs) == offs

\* offsets -= offsets[np.argmin(total_offsets)]
Reference(offs) ==
    LET t == TotalOffsets(offs)
        v == offs[ArgMin(t)]
    IN SubtractRow(offs, v)

Normalise ==
    /\ pc = "normalise"
    /\ IF offsets = <<>>
       THEN \* np.sum(..., axis=1) of a 1-d empty array
            /\ Leave("AxisError", "error", Error("AxisError", "", "", -1))
            /\ UNCHANGED offsets
       ELSE /\ offsets' = Reference(Centre(offsets))
            /\ pc' = "template"
            /\ UNCHANGED <<exit, err, tmpfiles, flist_exists>>
    /\ UNCHANGED <<params, outfile, nwrites, nf, frames, fwhm_values, mjds, xoff, yoff,
                   orig_wcs, stacking>>

\* ------------------------------------------------------------------------
\* Template frame and base WCS
\* ------------------------------------------------------------------------

\* Mutant of WcsFatal: the fallback is taken for every method.
WcsFatalNever(rm) == FALSE

\* The except branch of the WCS derivation: fatal only for 'exact'.
WcsFatal(rm) == rm = "exact"

\* A combined pixel: the fraction num/den, NaN when den = 0.
Frac(num, den) == [num |-> num, den |-> den]

FracNaN == Frac(0, 0)

\* hcam.MCCD.read(first_frame): the data of the first file, window by window.
TemplateData ==
    [c \in CnamSet |->
        [k \in 1..Len(Layout[c].wins) |->
            [p \in (0..(Layout[c].wins[k].ny - 1)) \X (0..(Layout[c].wins[k].nx - 1)) |->
                Frac(PixLevel(0), 1)]]]

Template ==
    /\ pc = "template"
    /\ \E derived \in BOOLEAN :
        IF derived
        THEN /\ orig_wcs' = "celestial"
             /\ pc' = "resample"
             /\ UNCHANGED <<exit, err, tmpfiles, flist_exists>>
        ELSE IF WcsFatal(reprmethod)
             THEN /\ Leave("HipercamError", "error", Error("wcs", "", "", -1))
                  /\ UNCHANGED orig_wcs
             ELSE /\ orig_wcs' = "basic"
                  /\ pc' = "resample"
                  /\ UNCHANGED <<exit, err, tmpfiles, flist_exists>>
    /\ output_mccd' = TemplateData
    /\ nf' = 0
    /\ UNCHANGED <<params, outfile, nwrites, estim, cidx, arrs, nframes_used,
                   header_string, stack, resampled>>

\* ------------------------------------------------------------------------
\* Frame resampler (one pass over the file list per CCD)
\* ------------------------------------------------------------------------

\* (ny, nx) of the binned full-frame array of a CCD.
OutputShape(c) == <<Layout[c].nytot \div Layout[c].ybin, Layout[c].nxtot \div Layout[c].xbin>>

Grid(shape) == (0..(shape[1] - 1)) \X (0..(shape[2] - 1))

\* int(x) of an offset: truncation towards zero, in whole pixels.
PyInt(x) == IF x >= 0 THEN x \div OffScale ELSE -((-x) \div OffScale)

\* A Python slice bound on an axis of length n.
PyIdx(a, n) == IF a < 0 THEN Max2(a + n, 0) ELSE Min2(a, n)

\* i is selected by the slice [a:b] on an axis of length n.
InSlice(i, a, b, n) == PyIdx(a, n) <= i /\ i < PyIdx(b, n)

\* The reference pixel (x, y) of a WCS made from the header of the template
\* frame, in pixels.
HeaderCrPix == <<509, 524>>

\* orig_wcs.wcs.crpix, (x, y): the reference pixel from the header for the
\* celestial WCS, (0.0, 0.0) for the basic WCS(naxis=2).
BaseCrPix(w) ==
    IF w = "celestial" THEN <<HeaderCrPix[1] * OffScale, HeaderCrPix[2] * OffScale>>
    ELSE <<0, 0>>

\* pixel_wcs.wcs.crpix on one axis: crval + frame_offset / bin -
\* window_offset in float64, crval being the crpix of the base WCS on
\* that axis.
CrPix(crval, f, bin, woff) == FlSub(FlAdd(crval, FlQuot(f, bin)), woff * OffScale)

\* The input pixel coordinate of the centre of output pixel q: the base WCS
\* takes q to the intermediate coordinate (q + 1) - crval, the window's WCS
\* adds its crpix and the result is brought back to 0-based pixels, each
\* step a float64.  (The way to the sky and back between the two is taken
\* to return the intermediate coordinate as it was.)
InputCoord(q, crval, crpix) ==
    FlSub(FlAdd(FlSub((q + 1) * OffScale, crval), crpix), OffScale)

\* The input coordinate of output pixel q of an axis lies inside the window
\* data of n pixels:  -1/2 <= coordinate <= n - 1/2.
InsideAxis(q, crval, woff, n, f, bin) ==
    LET x == InputCoord(q, crval, CrPix(crval, f, bin, woff))
    IN -(OffScale \div 2) <= x /\ x <= n * OffScale - OffScale \div 2

\* The output pixels of an axis of length len whose input coordinate lies
\* inside the window data.
InsideSet(len, crval, woff, n, f, bin) ==
    {q \in 0..(len - 1) : InsideAxis(q, crval, woff, n, f, bin)}

\* reproject_interp / reproject_exact / reproject_adaptive of a window of
\* constant level onto the full frame, with pixel_wcs.crpix shifted by
\* frame_offset / bin - window_offset.  Outside the input the interpolating
\* and exact methods give NaN; adaptive with boundary_mode='nearest' gives
\* the nearest input pixel.  The crpix is the float64 the code computes
\* from the crpix of orig_wcs and the unrounded offset: on the basic WCS a
\* rounding error of the offset can move a pixel centre across the edge of
\* the input, on the celestial one the sum with the reference pixel of the
\* header absorbs it.
Reproject(rm, wind, level, off, shape) ==
    LET rows == InsideSet(shape[1], BaseCrPix(orig_wcs)[2], wind.lly \div wind.ybin,
                          wind.ny, off[2], wind.ybin)
        cols == InsideSet(shape[2], BaseCrPix(orig_wcs)[1], wind.llx \div wind.xbin,
                          wind.nx, off[1], wind.xbin)
    IN [p \in Grid(shape) |->
           IF rm = "adaptive" \/ (p[1] \in rows /\ p[2] \in cols) THEN level ELSE NaN]

\* mask[ystart - int(dy) : yend - int(dy), xstart - int(dx) : xend - int(dx)] = True
FootprintMask(wind, off, shape) ==
    [p \in Grid(shape) |->
        /\ InSlice(p[1], (wind.lly \div wind.ybin) - PyInt(off[2]),
                   (wind.lly \div wind.ybin) + wind.ny - PyInt(off[2]), shape[1])
        /\ InSlice(p[2], (wind.llx \div wind.xbin) - PyInt(off[1]),
                   (wind.llx \div wind.xbin) + wind.nx - PyInt(off[1]), shape[2])]

\* Mutant of MaskOutside: the layer is stored unmasked.
MaskOutsideSkipped(data, mask) == data

\* reprojected_data[~mask] = np.nan
MaskOutside(data, mask) == [p \in DOMAIN data |-> IF mask[p] THEN data[p] ELSE NaN]

\* A variant that merges the windows of one frame into a single layer.
FrameLayersMerged(c, n, off) ==
    <<[p \in Grid(OutputShape(c)) |->
        IF \E k \in 1..Len(Layout[c].wins) :
               FootprintMask(Layout[c].wins[k], off, OutputShape(c))[p]
        THEN LET k == CHOOSE j \in 1..Len(Layout[c].wins) :
                          FootprintMask(Layout[c].wins[j], off, OutputShape(c))[p]
             IN Reproject(reprmethod, Layout[c].wins[k], PixLevel(n), off, OutputShape(c))[p]
        ELSE NaN]>>

\* The layers one frame adds to arrs: one per window, in window order.
FrameLayers(c, n, off) ==
    [k \in 1..Len(Layout[c].wins) |->
        MaskOutside(Reproject(reprmethod, Layout[c].wins[k], PixLevel(n), off, OutputShape(c)),
                    FootprintMask(Layout[c].wins[k], off, OutputShape(c)))]

FrameRecords(c, n, off) ==
    [k \in 1..Len(Layout[c].wins) |->
        [cnam |-> c, nf |-> n, wnam |-> Layout[c].wins[k].wnam, win |-> k, off |-> off]]

\* Where the resample loop goes after frame nf.
AfterResample == IF nf + 1 < nfiles THEN "resample" ELSE "combine"

\* The frame is skipped because of its FWHM (fwhm_values[nf] is in range).
FwhmSkip(n) == fthresh > 0 /\ fwhm_values[n + 1] > fthresh

Resample ==
    /\ pc = "resample"
    /\ nf < nfiles
    /\ LET cnam == CNAMS[cidx] IN
        IF cnam \notin frames[nf + 1].data
        THEN /\ pc' = AfterResample
             /\ nf' = nf + 1
             /\ UNCHANGED <<arrs, nframes_used, resampled, exit, err, tmpfiles, flist_exists>>
        ELSE IF fthresh > 0 /\ nf >= Len(fwhm_values)
        THEN /\ Leave("IndexError", "error", Error("IndexError", cnam, "", nf))
             /\ UNCHANGED <<nf, arrs, nframes_used, resampled>>
        ELSE IF FwhmSkip(nf)
        THEN /\ pc' = AfterResample
             /\ nf' = nf + 1
             /\ UNCHANGED <<arrs, nframes_used, resampled, exit, err, tmpfiles, flist_exists>>
        ELSE IF nf >= Len(offsets)
        THEN /\ Leave("IndexError", "error", Error("IndexError", cnam, "", nf))
             /\ nframes_used' = nframes_used + 1
             /\ UNCHANGED <<nf, arrs, resampled>>
        ELSE /\ nframes_used' = nframes_used + 1
             /\ arrs' = arrs \o FrameLayers(cnam, nf, offsets[nf + 1])
             /\ resampled' = resampled \o FrameRecords(cnam, nf, offsets[nf + 1])
             /\ pc' = AfterResample
             /\ nf' = nf + 1
             /\ UNCHANGED <<exit, err, tmpfiles, flist_exists>>
    /\ UNCHANGED <<params, outfile, nwrites, estim, orig_wcs, cidx, header_string, stack,
                   output_mccd>>

\* ------------------------------------------------------------------------
\* Stack combiner
\* ------------------------------------------------------------------------

\* The values of the layers at pixel p, along the frame axis.
Column(layers, p) == [k \in 1..Len(layers) |-> layers[k][p]]

\* Indices of the defined values of a column.
Defined(col) == {k \in 1..Len(col) : col[k] # NaN}

RECURSIVE SumOver(_, _)
SumOver(col, K) ==
    IF K = {} THEN 0
    ELSE LET k == CHOOSE x \in K : TRUE IN col[k] + SumOver(col, K \ {k})

RECURSIVE SumSqDev(_, _, _)
\* Sum over J of (n * col[j] - S)^2, with n and S those of the set K.
SumSqDev(col, K, J) ==
    IF J = {} THEN 0
    ELSE LET j == CHOOSE x \in J : TRUE
             d == Cardinality(K) * col[j] - SumOver(col, K)
         IN d * d + SumSqDev(col, K, J \ {j})

\* Mutant of Clipped: the deviation is compared with sig, not with sig * std.
ClippedAbsolute(col, K, k, sig) ==
    Abs(Cardinality(K) * col[k] - SumOver(col, K)) > sig * Cardinality(K)

\* sigma_clip's test for value k against the unmasked values K, cenfunc
\* 'mean' and stdfunc 'std':  |v - mean| > sig * std, as integers:
\*   n * (n * v - S)^2 > sig^2 * sum_j (n * v_j - S)^2
Clipped(col, K, k, sig) ==
    LET d == Cardinality(K) * col[k] - SumOver(col, K)
    IN Cardinality(K) * d * d > sig * sig * SumSqDev(col, K, K)

RECURSIVE SigmaClip(_, _, _, _)
\* The unmasked indices after at most `iters` more passes.
SigmaClip(col, K, sig, iters) ==
    LET K2 == {k \in K : ~Clipped(col, K, k, sig)}
    IN IF iters = 0 \/ K2 = K THEN K ELSE SigmaClip(col, K2, sig, iters - 1)

\* nanmean over the indices K.
MeanOf(col, K) == IF K = {} THEN FracNaN ELSE Frac(SumOver(col, K), Cardinality(K))

\* The value of rank r (1-based) among the values at indices K.
RankVal(col, K, r) ==
    LET k == CHOOSE x \in K :
                 /\ Cardinality({j \in K : col[j] < col[x]}) < r
                 /\ Cardinality({j \in K : col[j] <= col[x]}) >= r
    IN col[k]

\* nanmedian over the indices K.
MedianOf(col, K) ==
    LET n == Cardinality(K) IN
    IF n = 0 THEN FracNaN
    ELSE IF n % 2 = 1 THEN Frac(RankVal(col, K, (n + 1) \div 2), 1)
    ELSE Frac(RankVal(col, K, n \div 2) + RankVal(col, K, n \div 2 + 1), 2)

\* One pixel of the combined array.
CombineColumn(col, meth, sig, iters) ==
    IF meth = "m" THEN MedianOf(col, Defined(col))
    ELSE IF meth = "c" /\ sig > 0 THEN MeanOf(col, SigmaClip(col, Defined(col), sig, iters))
    ELSE MeanOf(col, Defined(col))

CombineStack(layers, meth, sig, iters) ==
    [p \in DOMAIN layers[1] |-> CombineColumn(Column(layers, p), meth, sig, iters)]

\* len(arrs) == 0 or nframes_used == 0
NoData(layers, n) == Len(layers) = 0 \/ n = 0

Combine ==
    /\ pc = "combine"
    /\ header_string' = Append(header_string, <<CNAMS[cidx], nframes_used>>)
    /\ IF NoData(arrs, nframes_used)
       THEN /\ Leave("HipercamError", "error", Error("nodata", CNAMS[cidx], "", -1))
            /\ UNCHANGED stack
       ELSE IF arrs = <<>>
       THEN \* np.stack of an empty list
            /\ Leave("ValueError", "error", Error("ValueError", CNAMS[cidx], "", -1))
            /\ UNCHANGED stack
       ELSE /\ stack' = CombineStack(arrs, method, sigma, maxiters)
            /\ pc' = "reassemble"
            /\ UNCHANGED <<exit, err, tmpfiles, flist_exists>>
    /\ UNCHANGED <<params, outfile, nwrites, nf, estim, orig_wcs, cidx, arrs, nframes_used,
                   output_mccd, resampled>>

\* ------------------------------------------------------------------------
\* Window reassembler
\* ------------------------------------------------------------------------

\* stack[ystart:yend, xstart:xend] for a window, re-indexed from 0.
Crop(stk, wind, shape) ==
    LET y0 == PyIdx(wind.lly \div wind.ybin, shape[1])
        y1 == PyIdx((wind.lly \div wind.ybin) + wind.ny, shape[1])
        x0 == PyIdx(wind.llx \div wind.xbin, shape[2])
        x1 == PyIdx((wind.llx \div wind.xbin) + wind.nx, shape[2])
    IN [p \in (0..(y1 - y0 - 1)) \X (0..(x1 - x0 - 1)) |-> stk[<<p[1] + y0, p[2] + x0>>]]

\* Mutant of HasNaN: all() instead of any().
HasNaNAll(crop) == \A p \in DOMAIN crop : crop[p].den = 0

\* np.isnan(crop).any()
HasNaN(crop) == \E p \in DOMAIN crop : crop[p].den = 0

\* The first window (in window order) whose crop holds a NaN, 0 if none.
FirstBad(stk, c) ==
    LET bad == {k \in 1..Len(Layout[c].wins) : HasNaN(Crop(stk, Layout[c].wins[k], OutputShape(c)))}
    IN IF bad = {} THEN 0 ELSE CHOOSE k \in bad : \A j \in bad : k <= j

\* output_mccd[cnam] after the crop loop: the windows before the first bad
\* one hold their crop.
Cropped(stk, c, old) ==
    [k \in 1..Len(Layout[c].wins) |->
        IF FirstBad(stk, c) = 0 \/ k < FirstBad(stk, c)
        THEN Crop(stk, Layout[c].wins[k], OutputShape(c))
        ELSE old[k]]

\* for cnam in output_mccd: CCD number i is followed by another one.
MoreCCDs(i) == i < Len(CNAMS)

Reassemble ==
    /\ pc = "reassemble"
    /\ LET cnam == CNAMS[cidx] IN
        /\ output_mccd' = [output_mccd EXCEPT ![cnam] = Cropped(stack, cnam, @)]
        /\ IF FirstBad(stack, cnam) # 0
           THEN /\ Leave("HipercamError", "error",
                         Error("nan", cnam, Layout[cnam].wins[FirstBad(stack, cnam)].wnam, -1))
                /\ UNCHANGED <<cidx, nf, arrs, nframes_used>>
           ELSE IF MoreCCDs(cidx)
           THEN /\ cidx' = cidx + 1
                /\ nf' = 0
                /\ arrs' = <<>>
                /\ nframes_used' = 0
                /\ pc' = "resample"
                /\ UNCHANGED <<exit, err, tmpfiles, flist_exists>>
           ELSE /\ pc' = "write"
                /\ UNCHANGED <<cidx, nf, arrs, nframes_used, exit, err, tmpfiles, flist_exists>>
    /\ UNCHANGED <<params, outfile, nwrites, estim, orig_wcs, header_string, stack, resampled>>

\* ------------------------------------------------------------------------
\* Output
\* ------------------------------------------------------------------------

SeqMin(s) == CHOOSE x \in {s[i] : i \in 1..Len(s)} : \A i \in 1..Len(s) : x <= s[i]

SeqMax(s) == CHOOSE x \in {s[i] : i \in 1..Len(s)} : \A i \in 1..Len(s) : x >= s[i]

\* History and write; twice the mid time is kept to stay in the integers.
\* The body of the block goes on after the write.
Write ==
    /\ pc = "write"
    /\ outfile' = [data |-> output_mccd,
                   nframes |-> header_string,
                   mid_time2 |-> 2 * SeqMin(mjds) + (SeqMax(mjds) - SeqMin(mjds))]
    /\ nwrites' = nwrites + 1
    /\ pc' = "written"
    /\ UNCHANGED <<params, tmpfiles, flist_exists, exit, err, nf, estim, orig_wcs, stacking>>

\* print(f"Written {outfile}"), the last statement of the block: the body
\* ends without an exception.
Written ==
    /\ pc = "written"
    /\ Leave("None", "ok", NoErr)
    /\ UNCHANGED <<params, outfile, nwrites, nf, estim, orig_wcs, stacking>>

\* ------------------------------------------------------------------------
\* User interrupt
\* ------------------------------------------------------------------------

\* SIGINT while the handler is installed: _sigint_handler calls
\* sys.exit(1).  Inside the block, also after the write, SystemExit unwinds
\* through CleanUp.__exit__, which then does its removal with SystemExit
\* pending; inside __exit__ it ends the removal where it stands.
\* Either way the process ends and its locals are gone.
Interrupt ==
    /\ pc # "done"
    /\ IF pc = "cleanup"
       THEN /\ pc' = "done"
            /\ exit' = "interrupt"
            /\ err' = NoErr
            /\ UNCHANGED <<tmpfiles, flist_exists>>
       ELSE Leave("SystemExit", "interrupt", NoErr)
    /\ nf' = 0
    /\ frames' = <<>>
    /\ offsets' = <<>>
    /\ fwhm_values' = <<>>
    /\ mjds' = <<>>
    /\ xoff' = 0
    /\ yoff' = 0
    /\ orig_wcs' = "none"
    /\ cidx' = 1
    /\ arrs' = <<>>
    /\ nframes_used' = 0
    /\ header_string' = <<>>
    /\ stack' = <<>>
    /\ output_mccd' = <<>>
    /\ resampled' = <<>>
    /\ UNCHANGED <<params, outfile, nwrites>>

\* ------------------------------------------------------------------------
\* The run
\* ------------------------------------------------------------------------

\* (method, sigma) pairs of the runs.
Combiners == {<<"m", 0>>, <<"c", 3>>}

\* The state on entering the CleanUp block, before the first frame is read.
Fresh ==
    /\ tmpfiles = AllFiles
    /\ flist_exists = TRUE
    /\ outfile = <<>>
    /\ nwrites = 0
    /\ exit = "running"
    /\ err = NoErr
    /\ nf = 0
    /\ frames = <<>>
    /\ offsets = <<>>
    /\ fwhm_values = <<>>
    /\ mjds = <<>>
    /\ xoff = 0
    /\ yoff = 0
    /\ orig_wcs = "none"
    /\ cidx = 1
    /\ arrs = <<>>
    /\ nframes_used = 0
    /\ header_string = <<>>
    /\ stack = <<>>
    /\ output_mccd = <<>>
    /\ resampled = <<>>

\* A run on grabbed frames with any threshold and resampling method under
\* the median, or with the clipped mean and the other parameters at their
\* defaults (the combiner is the only reader of method and sigma), or a run
\* on a pre-existing file list with the default parameters (it differs from
\* a run on grabbed frames in CleanUp.__exit__ only).
Init ==
    /\ server_or_local \in BOOLEAN
    /\ nfiles \in 1..MaxFrames
    /\ fthresh \in FThreshVals
    /\ reprmethod \in {"interp", "adaptive", "exact"}
    /\ \E c \in Combiners : method = c[1] /\ sigma = c[2]
    /\ method = "c" => (fthresh = 0 /\ reprmethod = "interp")
    /\ ~server_or_local => (fthresh = 0 /\ reprmethod = "interp" /\ method = "m")
    /\ maxiters = 3
    /\ ref_cnam = "2"
    /\ pc = "estimate"
    /\ Fresh

Next ==
    \/ Estimate
    \/ Normalise
    \/ Template
    \/ Resample
    \/ Combine
    \/ Reassemble
    \/ Write
    \/ Written
    \/ CleanUpExit
    \/ Interrupt

Spec == Init /\ [][Next]_vars

\* ------------------------------------------------------------------------
\* The drift normaliser on its own: any list of cumulative offsets
\* ------------------------------------------------------------------------

\* Cumulative offsets the estimator can hand over, in half pixels.
NormPairs == {<<x * HalfPix, y * HalfPix>> : x \in {-3, -2, 0, 1, 4}, y \in {0, 3}}

\* The state at line 509 after an estimator pass in which every frame had
\* data: the offsets are any list of NormPairs.
InitNorm ==
    /\ server_or_local = FALSE
    /\ nfiles \in 1..MaxFrames
    /\ fthresh = 0
    /\ reprmethod = "interp"
    /\ method = "m"
    /\ sigma = 0
    /\ maxiters = 3
    /\ ref_cnam = "2"
    /\ tmpfiles = AllFiles
    /\ flist_exists = TRUE
    /\ outfile = <<>>
    /\ nwrites = 0
    /\ pc = "normalise"
    /\ exit = "running"
    /\ err = NoErr
    /\ nf = nfiles
    /\ frames = [i \in 1..nfiles |-> [data |-> CnamSet]]
    /\ offsets \in [1..nfiles -> NormPairs]
    /\ fwhm_values = [i \in 1..nfiles |-> 1]
    /\ mjds = [i \in 1..nfiles |-> MJDUTC(i - 1)]
    /\ xoff = offsets[nfiles][1]
    /\ yoff = offsets[nfiles][2]
    /\ orig_wcs = "none"
    /\ cidx = 1
    /\ arrs = <<>>
    /\ nframes_used = 0
    /\ header_string = <<>>
    /\ stack = <<>>
    /\ output_mccd = <<>>
    /\ resampled = <<>>

NextNorm == Normalise

SpecNorm == InitNorm /\ [][NextNorm]_vars

\* ------------------------------------------------------------------------
\* The combiner on its own: any stack of steady frames
\* ------------------------------------------------------------------------

\* Values a frame can hold at the pixel under test.
CombVals == {10, 20, 1000, NaN}

\* The pixel under test: full-frame pixel (1, 1), inside window E1 of CCD 1.
TestPixel == <<1, 1>>

\* The masked layer of window k of CCD c for a frame at offset (0,0) whose
\* pixels are at level 10, but for the value v at the test pixel.
SteadyLayer(c, k, v) ==
    [p \in Grid(OutputShape(c)) |->
        IF ~FootprintMask(Layout[c].wins[k], <<0, 0>>, OutputShape(c))[p] THEN NaN
        ELSE IF p = TestPixel /\ k = 1 THEN v
        ELSE 10]

RECURSIVE SteadyLayers(_, _)
SteadyLayers(c, vs) ==
    IF vs = <<>> THEN <<>>
    ELSE SteadyLayers(c, SubSeq(vs, 1, Len(vs) - 1))
         \o [k \in 1..Len(Layout[c].wins) |-> SteadyLayer(c, k, vs[Len(vs)])]

\* The template of such a stack: the first file, which holds v at the test
\* pixel, pixel (0, 0) of window E1 of CCD 1.
SteadyTemplate(v) ==
    [TemplateData EXCEPT !["1"][1][<<TestPixel[1] - Layout["1"].wins[1].lly \div Layout["1"].wins[1].ybin,
                                     TestPixel[2] - Layout["1"].wins[1].llx \div Layout["1"].wins[1].xbin>>] =
                             IF v = NaN THEN FracNaN ELSE Frac(v, 1)]

RECURSIVE SteadyRecords(_, _)
SteadyRecords(c, n) ==
    IF n = 0 THEN <<>> ELSE SteadyRecords(c, n - 1) \o FrameRecords(c, n - 1, <<0, 0>>)

\* The state at line 635 for the first CCD after nfiles steady frames, all
\* with data and none skipped.
InitComb ==
    /\ server_or_local = FALSE
    /\ nfiles \in 1..MaxFrames
    /\ fthresh = 0
    /\ reprmethod = "interp"
    /\ \E c \in {<<"m", 0>>, <<"c", 0>>, <<"c", 1>>, <<"c", 3>>} : method = c[1] /\ sigma = c[2]
    /\ maxiters \in {1, 3}
    /\ ref_cnam = "2"
    /\ tmpfiles = AllFiles
    /\ flist_exists = TRUE
    /\ outfile = <<>>
    /\ nwrites = 0
    /\ pc = "combine"
    /\ exit = "running"
    /\ err = NoErr
    /\ nf = nfiles
    /\ frames = [i \in 1..nfiles |-> [data |-> CnamSet]]
    /\ offsets = [i \in 1..nfiles |-> <<0, 0>>]
    /\ fwhm_values = [i \in 1..nfiles |-> 1]
    /\ mjds = [i \in 1..nfiles |-> MJDUTC(i - 1)]
    /\ xoff = 0
    /\ yoff = 0
    /\ orig_wcs = "basic"
    /\ cidx = 1
    /\ \E vs \in [1..nfiles -> CombVals] :
           /\ arrs = SteadyLayers(CNAMS[1], vs)
           /\ output_mccd = SteadyTemplate(vs[1])
    /\ nframes_used = nfiles
    /\ header_string = <<>>
    /\ stack = <<>>
    /\ resampled = SteadyRecords(CNAMS[1], nfiles)

NextComb == Combine

SpecComb == InitComb /\ [][NextComb]_vars

\* ------------------------------------------------------------------------
\* The stacking loop on its own: any list of normalised offsets
\* ------------------------------------------------------------------------

\* Cumulative offsets the estimator can hand over: -2, -1.5, 0, 1.5, 3 or
\* 4.5 pixels in x and 0 or -2 pixels in y.  Among the lists of three are
\* those whose mean is no float64, so that normalised offsets carry a
\* rounding error (-2, -1.5, 4.5 gives -0.5000000000000002 for the first
\* frame).
ShiftPairs == {<<x * HalfPix, y * HalfPix>> : x \in {-4, -3, 0, 3, 6, 9}, y \in {0, -4}}

\* The state at line 534 after an estimator pass in which every frame had
\* data, the normalisation of lines 509-516 and the template step with
\* either WCS.
InitResample ==
    /\ server_or_local = FALSE
    /\ nfiles \in 1..MaxFrames
    /\ fthresh = 0
    /\ reprmethod \in {"interp", "adaptive"}
    /\ method = "m"
    /\ sigma = 0
    /\ maxiters = 3
    /\ ref_cnam = "2"
    /\ tmpfiles = AllFiles
    /\ flist_exists = TRUE
    /\ outfile = <<>>
    /\ nwrites = 0
    /\ pc = "resample"
    /\ exit = "running"
    /\ err = NoErr
    /\ nf = 0
    /\ frames = [i \in 1..nfiles |-> [data |-> CnamSet]]
    /\ \E raw \in [1..nfiles -> ShiftPairs] :
           /\ offsets = Reference(Centre(raw))
           /\ xoff = raw[nfiles][1]
           /\ yoff = raw[nfiles][2]
    /\ fwhm_values = [i \in 1..nfiles |-> 1]
    /\ mjds = [i \in 1..nfiles |-> MJDUTC(i - 1)]
    /\ orig_wcs \in {"basic", "celestial"}
    /\ cidx = 1
    /\ arrs = <<>>
    /\ nframes_used = 0
    /\ header_string = <<>>
    /\ stack = <<>>
    /\ output_mccd = TemplateData
    /\ resampled = <<>>

NextResample == Resample \/ Combine \/ Reassemble

SpecResample == InitResample /\ [][NextResample]_vars

\* ------------------------------------------------------------------------
\* Claims
\* ------------------------------------------------------------------------

HasZeroEntry(offs) == \E i \in 1..Len(offs) : offs[i] = <<0, 0>>

\* The column-wise mean is (0,0) to within the rounding of the float64.
MeanIsZero(offs) == Abs(ColSum(offs, 1)) < Fine \div 2 /\ Abs(ColSum(offs, 2)) < Fine \div 2

\* Two offsets are equal to within the rounding of the float64.
SameButRounding(x, y) == Exact(x) = Exact(y)

\* |n * x_i - sum x|: n times the distance of entry i from the column mean.
DistFromMean(offs, i) ==
    Abs(Len(offs) * offs[i][1] - ColSum(offs, 1)) + Abs(Len(offs) * offs[i][2] - ColSum(offs, 2))

\* C1 as stated: after the two normalisation steps the list has column-wise
\* mean (0,0) and at least one entry exactly (0,0).
C1_MeanZeroAndZeroEntry ==
    (pc = "template" /\ offsets # <<>>) => (MeanIsZero(offsets) /\ HasZeroEntry(offsets))

\* C1 amended: the two steps keep length and order, keep all differences
\* between frames to within the rounding of the float64, make a frame
\* nearest to the column mean exactly (0,0) and no frame farther from it,
\* and leave a column-wise mean of (0,0) only if some frame's cumulative
\* offset already equalled the column mean.
C1_ZeroEntryNearestMean ==
    [][(pc = "normalise" /\ pc' = "template") =>
        /\ Len(offsets') = Len(offsets)
        /\ \A i, j \in 1..Len(offsets) : \A k \in 1..2 :
               SameButRounding(offsets'[i][k] - offsets'[j][k], offsets[i][k] - offsets[j][k])
        /\ HasZeroEntry(offsets')
        /\ \A i \in 1..Len(offsets) :
               offsets'[i] = <<0, 0>> =>
                   \A j \in 1..Len(offsets) : DistFromMean(offsets, i) <= DistFromMean(offsets, j)
        /\ MeanIsZero(offsets') <=> (\E i \in 1..Len(offsets) : DistFromMean(offsets, i) = 0)
      ]_vars

\* Within C1: the differences between frames are not kept exactly: a
\* normalised offset can be a rounding error away from the difference of
\* the measured offsets.
C1_DifferencesExact ==
    [][(pc = "normalise" /\ pc' = "template") =>
        \A i, j \in 1..Len(offsets) : \A k \in 1..2 :
            offsets'[i][k] - offsets'[j][k] = offsets[i][k] - offsets[j][k]
      ]_vars

\* The first of the frames nearest to the column mean.
FirstNearest(offs) ==
    CHOOSE i \in 1..Len(offs) :
        /\ \A j \in 1..Len(offs) : DistFromMean(offs, i) <= DistFromMean(offs, j)
        /\ \A j \in 1..(i - 1) : DistFromMean(offs, j) > DistFromMean(offs, i)

\* Within C1: the frame made (0,0) is not always the first of the frames
\* nearest to the column mean: of two frames equally near, the rounding of
\* the float64 sums can make the later one the smaller (measured offsets
\* (0,0), (0.5,1.5), (-1,1.5) pixels: frames 0 and 1 are both 7/6 pixel from
\* the mean, frame 1 becomes (0,0)).
C1_FirstNearestIsZero ==
    [][(pc = "normalise" /\ pc' = "template") => offsets'[FirstNearest(offsets)] = <<0, 0>>]_vars

\* C1 witness: a normalised list of three with a (0,0) entry whose
\* column-wise mean is not (0,0).
C1_Witness ==
    /\ pc = "template"
    /\ Len(offsets) = 3
    /\ HasZeroEntry(offsets)
    /\ ~MeanIsZero(offsets)

\* The values the frames of the stack hold at the test pixel, frame by
\* frame (the layers of window E1).
TestColumn == [i \in 1..nframes_used |-> arrs[(i - 1) * Len(Layout["1"].wins) + 1][TestPixel]]

\* Two frames hold the value a and the third a value of at least 50 * a.
OneContaminated(col, a) ==
    /\ Len(col) = 3
    /\ \E i \in 1..3 :
        /\ col[i] # NaN /\ col[i] >= 50 * a
        /\ \A j \in (1..3) \ {i} : col[j] = a

ClipRun(sig) == pc = "reassemble" /\ cidx = 1 /\ method = "c" /\ sigma = sig

\* C9 as stated: clipped mean, sigma = 3, three frames of which two agree
\* and one is contaminated: the combined pixel is the mean of the two.
C9_ContaminatedExcluded ==
    \A a \in CombVals \ {NaN} :
        (ClipRun(3) /\ OneContaminated(TestColumn, a)) => stack[TestPixel].num = a * stack[TestPixel].den

\* C9 amended: with three frames and sigma = 3 nothing is ever clipped (a
\* single value among three lies at most sqrt(2) standard deviations from
\* their mean), so the combined pixel is the mean of all three frames,
\* contaminated one included.
C9_ThreeFramesNothingClipped ==
    (ClipRun(3) /\ nframes_used = 3 /\ \A i \in 1..3 : TestColumn[i] # NaN) =>
        /\ stack[TestPixel].den = 3
        /\ stack[TestPixel].num = TestColumn[1] + TestColumn[2] + TestColumn[3]

\* C9 witness: 10, 10 and 1000 combined to 1020/3.
C9_Witness ==
    /\ ClipRun(3)
    /\ OneContaminated(TestColumn, 10)
    /\ stack[TestPixel] = Frac(1020, 3)

\* Beside C9: with sigma = 1 the contaminated value is excluded and the
\* combined pixel is the mean of the two unaffected frames.
C9_Sigma1Excludes ==
    \A a \in CombVals \ {NaN} :
        (ClipRun(1) /\ OneContaminated(TestColumn, a)) => stack[TestPixel] = Frac(2 * a, 2)

Range(s) == {s[i] : i \in 1..Len(s)}

\* The position of frame n in offsets, fwhm_values and mjds: the estimator
\* appended to all three when it fitted frame n.  0 if it recorded nothing.
RecIdx(n) ==
    IF \E i \in 1..Len(mjds) : mjds[i] = MJDUTC(n)
    THEN CHOOSE i \in 1..Len(mjds) : mjds[i] = MJDUTC(n)
    ELSE 0

\* C2: in the estimator a frame without data in the reference CCD aborts
\* the run with an error if another CCD has data in it; a frame without
\* data in any CCD is skipped, nothing is recorded for it, and the loop goes
\* on with the next frame.
C2_RefSensorWithoutData ==
    /\ \A i \in 1..Len(frames) :
        /\ (ref_cnam \notin frames[i].data /\ frames[i].data # {}) =>
               /\ pc \in {"cleanup", "done"} /\ exit = "error"
               /\ err = Error("norefdata", ref_cnam, "", i - 1)
               /\ i = Len(frames)
        /\ frames[i].data = {} =>
               /\ MJDUTC(i - 1) \notin Range(mjds)
               /\ ~(err.kind = "norefdata" /\ err.nf = i - 1)
    /\ err.kind = "norefdata" =>
           /\ Len(frames) = err.nf + 1
           /\ ref_cnam \notin frames[Len(frames)].data
           /\ frames[Len(frames)].data # {}
    /\ pc = "estimate" => Len(frames) = nf
    /\ (pc \in {"estimate", "normalise"} \/ err.kind = "norefdata") =>
           /\ Len(offsets) = Cardinality({i \in 1..Len(frames) : ref_cnam \in frames[i].data})
           /\ Len(fwhm_values) = Len(offsets)
           /\ Len(mjds) = Len(offsets)

\* C2 witness: a frame without any data was skipped, a fitted frame
\* followed, and then a frame with data only outside the reference CCD
\* aborted the run.
C2_Witness ==
    /\ exit = "error" /\ err.kind = "norefdata"
    /\ Len(frames) = 3
    /\ frames[1].data = {}
    /\ Len(offsets) = 1

\* The CCDs whose crop loop has finished without error.
Reassembled ==
    {CNAMS[i] : i \in {j \in 1..Len(CNAMS) :
                          \/ j < cidx /\ output_mccd # <<>>
                          \/ j = cidx /\ (pc \in {"write", "written"} \/ exit = "ok")}}

WindowHasNaN(data) == \E p \in DOMAIN data : data[p].den = 0

\* C3: a window whose crop of the combined array holds a NaN aborts the run
\* with an error naming the CCD and the window, so every window of a CCD
\* whose crop loop finished, and of a written output, is free of NaN.
C3_NoNaNWindow ==
    /\ \A c \in Reassembled : \A k \in 1..Len(Layout[c].wins) :
           /\ ~WindowHasNaN(output_mccd[c][k])
           /\ c = CNAMS[Len(CNAMS)] \/ cidx > 1
    /\ (pc \in {"resample", "combine"} /\ cidx > 1) =>
           \A k \in 1..Len(Layout[CNAMS[cidx - 1]].wins) :
               ~WindowHasNaN(Crop(stack, Layout[CNAMS[cidx - 1]].wins[k], OutputShape(CNAMS[cidx - 1])))
    /\ err.kind = "nan" =>
           /\ pc \in {"cleanup", "done"} /\ exit = "error" /\ nwrites = 0
           /\ err.cnam = CNAMS[cidx]
           /\ \E k \in 1..Len(Layout[err.cnam].wins) :
                  /\ Layout[err.cnam].wins[k].wnam = err.wnam
                  /\ WindowHasNaN(Crop(stack, Layout[err.cnam].wins[k], OutputShape(err.cnam)))
    /\ exit = "ok" =>
           \A c \in CnamSet : \A k \in 1..Len(Layout[c].wins) :
               /\ outfile.data[c][k] = output_mccd[c][k]
               /\ ~WindowHasNaN(outfile.data[c][k])

\* C3 witness: the crop of window E1 of CCD 1 held NaN beside defined
\* pixels, and the run was aborted naming CCD and window, nothing written.
C3_Witness ==
    /\ exit = "error" /\ err.kind = "nan" /\ err.cnam = "1" /\ err.wnam = "E1"
    /\ \E p \in DOMAIN Crop(stack, Layout["1"].wins[1], OutputShape("1")) :
           Crop(stack, Layout["1"].wins[1], OutputShape("1"))[p].den > 0
    /\ nwrites = 0

\* The frames of the file list that survive the skip logic for CCD c: data
\* in c, and not an FWHM above a positive threshold.
Survivors(c) ==
    {n \in 0..(Len(frames) - 1) :
        /\ c \in frames[n + 1].data
        /\ ~(fthresh > 0 /\ RecIdx(n) # 0 /\ fwhm_values[RecIdx(n)] > fthresh)}

\* The frames resampled for CCD c.
UsedFrames(c) == {resampled[k].nf : k \in {j \in 1..Len(resampled) : resampled[j].cnam = c}}

\* C4 as stated: a CCD whose stacking loop has ended and for which no frame
\* of the list survived the skip logic (every frame lacks data in it or has
\* a recorded FWHM above a positive threshold) is not combined: the run has
\* failed with the error naming that CCD and nothing is written; and a run
\* without any frame with data fails with that error, not with another.
C4_NoSurvivorIsAnError ==
    /\ \A i \in 1..Len(header_string) :
           Survivors(header_string[i][1]) = {} =>
               /\ pc \in {"cleanup", "done"} /\ exit = "error" /\ nwrites = 0
               /\ err = Error("nodata", header_string[i][1], "", -1)
    /\ err.kind # "AxisError"

\* Part of C4 that holds: a CCD that reaches the combination with no frame
\* resampled for it is never combined: the run fails at that CCD with the
\* error naming it, and no output is written; a run that ends normally had
\* a surviving frame for every CCD.
C4_NoFramesIsAnError ==
    /\ pc = "reassemble" => (nframes_used > 0 /\ arrs # <<>> /\ UsedFrames(CNAMS[cidx]) # {})
    /\ \A i \in 1..Len(header_string) :
           header_string[i][2] = 0 =>
               /\ pc \in {"cleanup", "done"} /\ exit = "error" /\ nwrites = 0
               /\ err = Error("nodata", header_string[i][1], "", -1)
               /\ i = Len(header_string)
               /\ stack = <<>> \/ cidx > 1
    /\ err.kind = "nodata" =>
           (nframes_used = 0 /\ arrs = <<>> /\ UsedFrames(err.cnam) = {} /\ err.cnam = CNAMS[cidx])
    /\ exit = "ok" => \A c \in CnamSet : Survivors(c) # {}

\* Part of C4 that holds: in a run without a frame that has no data at all
\* (the lookups of C10 are aligned there), a CCD without a surviving frame
\* fails the run with the error naming it.
C4_NoSurvivorWithoutEmptyFrames ==
    (\A i \in 1..Len(frames) : frames[i].data # {}) =>
        \A i \in 1..Len(header_string) :
            Survivors(header_string[i][1]) = {} =>
                /\ pc \in {"cleanup", "done"} /\ exit = "error" /\ nwrites = 0
                /\ err = Error("nodata", header_string[i][1], "", -1)

\* C5: with 'exact', a failed WCS derivation aborts the run before anything
\* is resampled; with another method the run goes on with the basic WCS.
C5_ExactNeedsWcs ==
    /\ err.kind = "wcs" =>
           /\ pc \in {"cleanup", "done"} /\ exit = "error" /\ reprmethod = "exact"
           /\ resampled = <<>> /\ arrs = <<>> /\ nframes_used = 0 /\ orig_wcs = "none"
    /\ orig_wcs = "basic" => reprmethod # "exact"
    /\ (reprmethod = "exact" /\ resampled # <<>>) => orig_wcs = "celestial"
    /\ (pc \in {"resample", "combine", "reassemble", "write", "written"}) =>
           orig_wcs \in {"celestial", "basic"}

\* C5 witness: the offsets were estimated and normalised, the derivation
\* failed under 'exact' and the run ended with nothing resampled.
C5_Witness ==
    /\ exit = "error" /\ err.kind = "wcs" /\ reprmethod = "exact"
    /\ Len(offsets) = 3 /\ resampled = <<>>

\* C7 as stated: grabbed frames: every file of the list and the list file
\* are gone however the block was left; a pre-existing list: nothing is
\* ever deleted.
C7_TemporaryFilesRemoved ==
    /\ ~server_or_local => (tmpfiles = AllFiles /\ flist_exists)
    /\ (server_or_local /\ pc = "done") => (tmpfiles = {} /\ ~flist_exists)

\* Part of C7 that holds: a pre-existing list and its files are never
\* deleted; of grabbed frames nothing is deleted before the block is left,
\* the files go in the order of the list and the list after them, and a run
\* that ends normally or with the error that left the block has removed
\* them all.
C7_RemovedUnlessInterrupted ==
    /\ ~server_or_local => (tmpfiles = AllFiles /\ flist_exists)
    /\ pc \notin {"cleanup", "done"} => (tmpfiles = AllFiles /\ flist_exists)
    /\ \A n \in tmpfiles : \A m \in AllFiles : m > n => m \in tmpfiles
    /\ ~flist_exists => tmpfiles = {}
    /\ (server_or_local /\ pc = "done" /\ exit \in {"ok", "error"}) =>
           (tmpfiles = {} /\ ~flist_exists)

\* The history record of layer k of arrs: the layers of the CCD being
\* stacked are the last Len(arrs) records.
LayerRecord(k) == resampled[Len(resampled) - Len(arrs) + k]

\* C8: in every layer of the stack, every pixel outside the footprint
\* computed for its window and frame offset is NaN, whatever the method.
C8_OutsideFootprintIsNaN ==
    \A k \in 1..Len(arrs) :
        LET r == LayerRecord(k)
            m == FootprintMask(Layout[r.cnam].wins[r.win], r.off, OutputShape(r.cnam))
        IN \A p \in Grid(OutputShape(r.cnam)) : ~m[p] => arrs[k][p] = NaN

\* C8 witness: an adaptive resampling (defined on the whole grid) of a
\* frame with a non-zero offset is in the stack with NaN outside its
\* footprint and data inside.
C8_Witness ==
    /\ reprmethod = "adaptive"
    /\ \E k \in 1..Len(arrs) :
        LET r == LayerRecord(k)
            m == FootprintMask(Layout[r.cnam].wins[r.win], r.off, OutputShape(r.cnam))
        IN /\ r.off # <<0, 0>>
           /\ \E p \in Grid(OutputShape(r.cnam)) : ~m[p] /\ arrs[k][p] = NaN
           /\ \E p \in Grid(OutputShape(r.cnam)) : m[p] /\ arrs[k][p] # NaN

\* C6 as stated: for each combined CCD the frames included are exactly
\* those with data in it whose recorded FWHM does not exceed a positive
\* threshold, and the count in the history is their number.
C6_IncludedIffDataAndSharp ==
    \A i \in 1..Len(header_string) :
        LET c == header_string[i][1] IN
        /\ UsedFrames(c) = Survivors(c)
        /\ header_string[i][2] = Cardinality(Survivors(c))

\* C10 as stated: every resampled frame is shifted by the offset, and
\* filtered by the FWHM, recorded for that same frame, and the lookups stay
\* inside the recorded lists.
C10_OffsetOfTheSameFrame ==
    /\ err.kind # "IndexError"
    /\ \A k \in 1..Len(resampled) :
        LET r == resampled[k] IN
        /\ RecIdx(r.nf) # 0
        /\ r.off = offsets[RecIdx(r.nf)]
        /\ fthresh > 0 => fwhm_values[RecIdx(r.nf)] <= fthresh

\* Part of C10, the lookups running past the end set aside: a frame that
\* is resampled gets the offset recorded for that frame.
C10_NoWrongOffset ==
    \A k \in 1..Len(resampled) :
        RecIdx(resampled[k].nf) # 0 /\ resampled[k].off = offsets[RecIdx(resampled[k].nf)]

\* C10 holds of the runs without a frame that has no data at all: there
\* the lookups are aligned and in range.
C10_AlignedWithoutEmptyFrames ==
    (\A i \in 1..Len(frames) : frames[i].data # {}) => C10_OffsetOfTheSameFrame

\* A run in which a frame without data precedes a frame with data never
\* writes an output: the misaligned lookups of C10 end in the IndexError
\* at the latest.
C10_MisalignedRunsNeverWrite ==
    (exit = "ok") => \A i \in 1..Len(frames) : \A j \in 1..(i - 1) :
                         frames[i].data # {} => frames[j].data # {}

\* ------------------------------------------------------------------------
\* C11: the length of the stack
\* ------------------------------------------------------------------------

\* The number of windows of the CCD being stacked.
NWins == Len(Layout[CNAMS[cidx]].wins)

\* C11 as stated: the stack handed to the combiner holds exactly one layer
\* per used frame, so its length is the count of frames used for the CCD,
\* whatever the number of windows.
C11_OneLayerPerFrame ==
    pc \in {"combine", "reassemble"} => Len(arrs) = nframes_used

\* C11, amended: the stack handed to the combiner holds one full-grid layer
\* per window of every used frame, so its length is the count of frames used
\* times the number of windows of the CCD; of the layers of one frame at most
\* one is defined at any pixel.
C11_OneLayerPerWindowPerFrame ==
    pc \in {"combine", "reassemble"} =>
        /\ Len(arrs) = nframes_used * NWins
        /\ \A k \in 1..Len(arrs) : DOMAIN arrs[k] = Grid(OutputShape(CNAMS[cidx]))
        /\ \A i \in 1..nframes_used : \A p \in Grid(OutputShape(CNAMS[cidx])) :
               Cardinality({k \in 1..NWins : arrs[(i - 1) * NWins + k][p] # NaN}) <= 1

\* Two frames were used for the CCD with two windows, and four layers are
\* handed to the combiner.
C11_Witness ==
    /\ pc = "reassemble"
    /\ NWins = 2
    /\ nframes_used = 2
    /\ Len(arrs) = 4

\* ------------------------------------------------------------------------
\* C12, C13: the footprint mask against the placement of the data
\* ------------------------------------------------------------------------

\* The window and the grid of a layer record.
RecWind(r) == Layout[r.cnam].wins[r.win]

RecShape(r) == OutputShape(r.cnam)

\* The cells the mask of a layer record leaves defined.
MaskCells(r) == {p \in Grid(RecShape(r)) : FootprintMask(RecWind(r), r.off, RecShape(r))[p]}

SetMin(S) == CHOOSE x \in S : \A y \in S : x <= y

\* Both start indices of the mask slices of a layer record are non-negative.
StartsInGrid(r) ==
    /\ (RecWind(r).llx \div RecWind(r).xbin) - PyInt(r.off[1]) >= 0
    /\ (RecWind(r).lly \div RecWind(r).ybin) - PyInt(r.off[2]) >= 0

\* The first column (row) of the mask lies less than one grid cell from
\* where the transform puts the first column (row) of the window's data,
\* window start - offset / binning.
MaskAtData(r) ==
    /\ Abs((SetMin({p[2] : p \in MaskCells(r)}) - (RecWind(r).llx \div RecWind(r).xbin))
               * OffScale * RecWind(r).xbin + r.off[1]) < OffScale * RecWind(r).xbin
    /\ Abs((SetMin({p[1] : p \in MaskCells(r)}) - (RecWind(r).lly \div RecWind(r).ybin))
               * OffScale * RecWind(r).ybin + r.off[2]) < OffScale * RecWind(r).ybin

\* C12 as stated: the footprint the mask leaves defined is displaced by the
\* same number of grid cells as the data the transform places, the frame
\* offset divided by the binning factor of the window, whatever the binning
\* (up to the truncation to whole cells; layers whose mask slice starts
\* below index 0 or is empty are set aside).
C12_MaskDisplacedLikeData ==
    \A k \in 1..Len(resampled) :
        (StartsInGrid(resampled[k]) /\ MaskCells(resampled[k]) # {}) => MaskAtData(resampled[k])

\* Part of C12 that holds: for a window binned 1x1 along both axes the mask
\* is displaced like the data.
C12_UnbinnedMaskAtData ==
    \A k \in 1..Len(resampled) :
        (/\ StartsInGrid(resampled[k])
         /\ MaskCells(resampled[k]) # {}
         /\ RecWind(resampled[k]).xbin = 1
         /\ RecWind(resampled[k]).ybin = 1) => MaskAtData(resampled[k])

\* The window rectangle translated by minus the truncated offset, cut to
\* the grid.
TranslatedRect(r) ==
    {p \in Grid(RecShape(r)) :
        /\ (RecWind(r).lly \div RecWind(r).ybin) - PyInt(r.off[2]) <= p[1]
        /\ p[1] < (RecWind(r).lly \div RecWind(r).ybin) + RecWind(r).ny - PyInt(r.off[2])
        /\ (RecWind(r).llx \div RecWind(r).xbin) - PyInt(r.off[1]) <= p[2]
        /\ p[2] < (RecWind(r).llx \div RecWind(r).xbin) + RecWind(r).nx - PyInt(r.off[1])}

\* C13 as stated: for every layer the cells the mask leaves defined are
\* exactly the cells of the grid inside the window rectangle translated by
\* minus the truncated offset, also when the translation pushes the
\* rectangle below row or column 0; with the adaptive method these are the
\* cells of the layer that are not NaN.
C13_FootprintIsTranslatedRect ==
    /\ \A k \in 1..Len(resampled) : MaskCells(resampled[k]) = TranslatedRect(resampled[k])
    /\ reprmethod = "adaptive" =>
           \A k \in 1..Len(arrs) :
               {p \in DOMAIN arrs[k] : arrs[k][p] # NaN} = TranslatedRect(LayerRecord(k))

\* Part of C13 that holds: the footprint is the translated rectangle cut to
\* the grid whenever both slices start at a non-negative index.
C13_RectWhenStartsInGrid ==
    \A k \in 1..Len(resampled) :
        StartsInGrid(resampled[k]) => MaskCells(resampled[k]) = TranslatedRect(resampled[k])

\* ------------------------------------------------------------------------
\* C14: the anchor frame and the stack
\* ------------------------------------------------------------------------

\* The CCDs that were combined: those with an entry in the history whose
\* combination did not fail for want of frames.
CombinedCCDs ==
    {header_string[i][1] : i \in {j \in 1..Len(header_string) :
        j < Len(header_string) \/ err.kind \notin {"nodata", "ValueError"}}}

\* C14 as stated, for the runs in which every frame of the list has data in
\* some CCD (so that every frame has its own recorded offset): for every
\* combined CCD at least one of the frames resampled for it has the
\* normalised offset exactly (0,0).
C14_AnchorFrameStacked ==
    (\A i \in 1..Len(frames) : frames[i].data # {}) =>
        \A c \in CombinedCCDs :
            \E k \in 1..Len(resampled) : resampled[k].cnam = c /\ resampled[k].off = <<0, 0>>

\* Part of C14 that holds: without an FWHM threshold, and with data in every
\* CCD of every frame, the anchor frame is among the frames stacked for
\* every combined CCD.
C14_AnchorStackedWhenNothingSkipped ==
    (fthresh = 0 /\ \A i \in 1..Len(frames) : frames[i].data = CnamSet) =>
        \A c \in CombinedCCDs :
            \E k \in 1..Len(resampled) : resampled[k].cnam = c /\ resampled[k].off = <<0, 0>>

\* ------------------------------------------------------------------------
\* C15: the output file
\* ------------------------------------------------------------------------

\* The written output holds every CCD of the template, stacked from at
\* least one frame, with no NaN in any window.
OutputComplete ==
    /\ Len(outfile.nframes) = Len(CNAMS)
    /\ \A i \in 1..Len(CNAMS) :
           outfile.nframes[i][1] = CNAMS[i] /\ outfile.nframes[i][2] > 0
    /\ \A c \in CnamSet : \A k \in 1..Len(Layout[c].wins) :
           ~WindowHasNaN(outfile.data[c][k])

\* C15 as stated: the output is written at most once, and only after every
\* CCD of the template was stacked, combined and cropped into its windows
\* without error; a run that ends with an error or with an interrupt has
\* written nothing.
C15_WrittenOnceAfterAllCCDs ==
    /\ nwrites <= 1
    /\ (nwrites = 0) <=> (outfile = <<>>)
    /\ nwrites = 1 => OutputComplete
    /\ exit \in {"error", "interrupt"} => nwrites = 0

\* Part of C15 that holds: the output is written at most once, only at the
\* end of the block after every CCD was stacked, combined and cropped
\* without error, and never in a run that leaves the block with an error
\* or is interrupted before the write.
C15_WrittenOnceNeverAfterError ==
    /\ nwrites <= 1
    /\ (nwrites = 0) <=> (outfile = <<>>)
    /\ nwrites = 1 => (OutputComplete /\ pc \in {"written", "cleanup", "done"})
    /\ exit = "error" => nwrites = 0
    /\ pc \notin {"written", "cleanup", "done"} => nwrites = 0

====
